---- MODULE Spec2Model ----
(***************************************************************************)
(* Model of code/scripts/srec_cat_fill.py: the Intel HEX merge-and-fill    *)
(* tool.  main() parses every input file with parse_intel_hex, folds the   *)
(* parsed images with dict.update, and write_data_as_hex walks the merged  *)
(* image from its lowest to its highest address and writes the records.    *)
(*                                                                         *)
(* Text is modelled as text: a line is a sequence of one-character         *)
(* strings, int(s, 16) and "{:02X}".format(n) are computed digit by digit. *)
(* Python integers are unbounded; an address is kept as the pair           *)
(* <<address >> 16, address & 0xFFFF>> so that addresses at and above 2^32 *)
(* are represented exactly.                                                *)
(***************************************************************************)
EXTENDS Integers, Sequences, FiniteSets, TLC

\* ------------------------------------------------------------------ bounds
\* number of input files on the command line (nargs='+': at least one)
MaxFiles == 2
\* number of lines of one input file
MaxLines == 2
\* number of records the walk of write_data_as_hex may have appended before
\* the model stops following it
MaxRecords == 6

\* ------------------------------------------------------ integers and text
Min(a, b) == IF a <= b THEN a ELSE b

HexChars == <<"0", "1", "2", "3", "4", "5", "6", "7",
              "8", "9", "A", "B", "C", "D", "E", "F">>

IsHexChar(c) == \E k \in 1..16 : HexChars[k] = c

HexVal(c) == (CHOOSE k \in 1..16 : HexChars[k] = c) - 1

\* the characters str.strip() removes that occur in the modelled files
IsSpace(c) == c = " " \/ c = "\n"

\* s[a:b] of Python, for 0 <= a <= b: out-of-range bounds are clipped
PySlice(s, a, b) == SubSeq(s, a + 1, Min(b, Len(s)))

RECURSIVE lstrip(_)
lstrip(s) ==
    IF s # <<>> /\ IsSpace(Head(s)) THEN lstrip(Tail(s)) ELSE s

RECURSIVE rstrip(_)
rstrip(s) ==
    IF s # <<>> /\ IsSpace(s[Len(s)]) THEN rstrip(SubSeq(s, 1, Len(s) - 1)) ELSE s

\* line.strip()
strip(s) == rstrip(lstrip(s))

\* the result of int(s, 16) when it raises ValueError
ValueError == -1

RECURSIVE HexFold(_, _)
HexFold(s, acc) ==
    IF s = <<>> THEN acc ELSE HexFold(Tail(s), acc * 16 + HexVal(Head(s)))

\* int(s, 16): the value of text made of hexadecimal digits; the empty string
\* and text with another character raise ValueError.  (The signs, "0x",
\* "_" and inner blanks that int also accepts do not occur in the modelled
\* files, whose digits are upper case.)
int16(s) ==
    IF s = <<>> \/ \E k \in 1..Len(s) : ~IsHexChar(s[k])
    THEN ValueError
    ELSE HexFold(s, 0)

RECURSIVE HexDigits(_)
HexDigits(n) ==
    IF n < 16 THEN <<HexChars[n + 1]>>
    ELSE HexDigits(n \div 16) \o <<HexChars[(n % 16) + 1]>>

RECURSIVE ZeroPad(_, _)
ZeroPad(s, width) == IF Len(s) >= width THEN s ELSE ZeroPad(<<"0">> \o s, width)

\* "{:02X}".format(n) and "{:04X}".format(n) for n >= 0: at least width digits
FormatX(n, width) == ZeroPad(HexDigits(n), width)

RECURSIVE JoinHex(_)
\* ''.join(f"{b:02X}" for b in data_bytes)
JoinHex(bytes) ==
    IF bytes = <<>> THEN <<>> ELSE FormatX(Head(bytes), 2) \o JoinHex(Tail(bytes))

RECURSIVE SumSeq(_)
SumSeq(s) == IF s = <<>> THEN 0 ELSE Head(s) + SumSeq(Tail(s))

\* -------------------------------------------------------------- addresses
\* an address a is the pair <<a >> 16, a & 0xFFFF>>
TwoPow16 == 65536

\* (hi << 16) + n, n >= 0
MkAddr(hi, n) == <<hi + (n \div TwoPow16), n % TwoPow16>>

AddrAdd(a, n) == MkAddr(a[1], a[2] + n)

AddrLE(a, b) == a[1] < b[1] \/ (a[1] = b[1] /\ a[2] <= b[2])

\* min(d.keys()) and max(d.keys())
MinKey(d) == CHOOSE a \in DOMAIN d : \A b \in DOMAIN d : AddrLE(a, b)
MaxKey(d) == CHOOSE a \in DOMAIN d : \A b \in DOMAIN d : AddrLE(b, a)

\* b - a + 1 for a <= b, exact up to 2^17 and 2^17 above: the code only
\* takes its minimum with a number of at most 16
SpanPlus1(a, b) ==
    IF b[1] = a[1] THEN b[2] - a[2] + 1
    ELSE IF b[1] = a[1] + 1 THEN TwoPow16 - a[2] + b[2] + 1
    ELSE 2 * TwoPow16

\* ------------------------------------------------------------ dictionaries
EmptyDict == [a \in {} |-> 0]

\* d.get(key, default) with a missing key read as 0xFF
GetMissingAsFF(d, key, default) == IF key \in DOMAIN d THEN d[key] ELSE 255

\* d.get(key, default)
dict_get(d, key, default) == IF key \in DOMAIN d THEN d[key] ELSE default

\* d.update(other) with the earlier value kept on a conflict
UpdateFirstWins(d, other) ==
    [a \in DOMAIN d \cup DOMAIN other |-> IF a \in DOMAIN d THEN d[a] ELSE other[a]]

\* d.update(other)
dict_update(d, other) ==
    [a \in DOMAIN d \cup DOMAIN other |-> IF a \in DOMAIN other THEN other[a] ELSE d[a]]

\* -------------------------------------------------------- parse_intel_hex
\* base_addr with the extended address left out
BaseAddrNoExt(extended_addr, offset) == MkAddr(0, offset)

\* base_addr = (extended_addr << 16) + offset
base_addr(extended_addr, offset) == MkAddr(extended_addr, offset)

\* byte_val = int(data_field[i*2:i*2+2], 16) for i in range(byte_count)
DataBytes(data_field, byte_count) ==
    [i \in 1..byte_count |-> int16(PySlice(data_field, (i - 1) * 2, (i - 1) * 2 + 2))]

\* data[base_addr + i] = byte_val for i in range(byte_count)
StoreBytes(data, base, bytes) ==
    LET new == {AddrAdd(base, i - 1) : i \in 1..Len(bytes)}
    IN  [a \in DOMAIN data \cup new |->
            IF a \in new
            THEN bytes[CHOOSE i \in 1..Len(bytes) : AddrAdd(base, i - 1) = a]
            ELSE data[a]]

Continue(data, extended_addr) ==
    [status |-> "continue", data |-> data, extended_addr |-> extended_addr]
Break(data, extended_addr) ==
    [status |-> "break", data |-> data, extended_addr |-> extended_addr]
Raise(data, extended_addr) ==
    [status |-> "raise", data |-> data, extended_addr |-> extended_addr]

\* one iteration of "for line in f": what it does to data and extended_addr,
\* and whether the loop goes on, breaks or raises ValueError
ParseLine(raw, data, extended_addr) ==
    LET line == strip(raw) IN
    IF line = <<>> \/ line[1] # ":" THEN Continue(data, extended_addr)
    ELSE
    LET byte_count  == int16(PySlice(line, 1, 3))
        offset      == int16(PySlice(line, 3, 7))
        record_type == int16(PySlice(line, 7, 9))
    IN
    IF byte_count = ValueError \/ offset = ValueError \/ record_type = ValueError
    THEN Raise(data, extended_addr)
    ELSE
    LET data_field == PySlice(line, 9, 9 + byte_count * 2) IN
    CASE record_type = 4 ->
            IF byte_count # 2 \/ int16(data_field) = ValueError
            THEN Raise(data, extended_addr)
            ELSE Continue(data, int16(data_field))
      [] record_type = 0 ->
            LET bytes == DataBytes(data_field, byte_count) IN
            IF \E i \in 1..byte_count : bytes[i] = ValueError
            THEN Raise(data, extended_addr)
            ELSE Continue(StoreBytes(data, base_addr(extended_addr, offset), bytes),
                          extended_addr)
      [] record_type = 1 -> Break(data, extended_addr)
      [] OTHER -> Continue(data, extended_addr)

RECURSIVE ParseLoop(_, _, _, _)
\* the loop over the lines of the file, from line k on
ParseLoop(lines, k, data, extended_addr) ==
    IF k > Len(lines) THEN [status |-> "ok", data |-> data]
    ELSE LET r == ParseLine(lines[k], data, extended_addr) IN
         CASE r.status = "raise" -> [status |-> "ValueError", data |-> EmptyDict]
           [] r.status = "break" -> [status |-> "ok", data |-> r.data]
           [] OTHER -> ParseLoop(lines, k + 1, r.data, r.extended_addr)

\* parse_intel_hex(file_path), lines being the lines of the file: the
\* returned dictionary, or the ValueError that leaves the function
parse_intel_hex(lines) == ParseLoop(lines, 1, EmptyDict, 0)

\* ------------------------------------------------------- compute_checksum
\* the checksum without the "+ 1": the one's complement of the sum
ChecksumOnesComplement(byte_count, offset, record_type, data_bytes) ==
    LET total == byte_count + ((offset \div 256) % 256) + (offset % 256)
                 + record_type + SumSeq(data_bytes)
    IN  (-total - 1) % 256

\* ~total + 1 is -total; & 0xFF keeps the low byte
compute_checksum(byte_count, offset, record_type, data_bytes) ==
    LET total == byte_count + ((offset \div 256) % 256) + (offset % 256)
                 + record_type + SumSeq(data_bytes)
    IN  ((-total - 1) + 1) % 256

\* ":{:02X}{:04X}{:02X}{}{:02X}".format(byte_count, offset, record_type,
\*      ''.join(f"{b:02X}" for b in data_bytes), chksum)
FormatRecord(byte_count, offset, record_type, data_bytes, chksum) ==
    <<":">> \o FormatX(byte_count, 2) \o FormatX(offset, 4) \o FormatX(record_type, 2)
            \o JoinHex(data_bytes) \o FormatX(chksum, 2)

\* gen_ext_record(ext_addr)
gen_ext_record(ext_addr) ==
    LET data_bytes == <<(ext_addr \div 256) % 256, ext_addr % 256>>
    IN  FormatRecord(2, 0, 4, data_bytes, compute_checksum(2, 0, 4, data_bytes))

\* the literal ":00000001FF"
EofRecord == <<":", "0", "0", "0", "0", "0", "0", "0", "1", "F", "F">>

\* ------------------------------------------------------------ input files
\* a record line as a HEX file holds it, with its checksum and line end
RecordLine(byte_count, offset, record_type, data_bytes) ==
    FormatRecord(byte_count, offset, record_type, data_bytes,
                 compute_checksum(byte_count, offset, record_type, data_bytes))
    \o <<"\n">>

\* Data 11 22 at offset 0x0000
LineData0 == RecordLine(2, 0, 0, <<17, 34>>)
\* Data FF at offset 0x0001
LineData1 == RecordLine(1, 1, 0, <<255>>)
\* Data 33 at offset 0x0012, in the 16-byte block after that of LineData0
LineData18 == RecordLine(1, 18, 0, <<51>>)
\* Data AA BB at offset 0xFFFF: the second byte is in the next 64KB segment
LineDataTop == RecordLine(2, 65535, 0, <<170, 187>>)
\* Extended Linear Address 0xFFFF
LineExtTop == RecordLine(2, 0, 4, <<255, 255>>)
\* End Of File
LineEof == EofRecord \o <<"\n">>
\* Extended Segment Address, a record type the parser skips
LineOther == RecordLine(2, 0, 2, <<16, 0>>)
\* a blank line
LineBlank == <<"\n">>
\* LineData0 cut after its first data byte, ":0200000011": byte_count 2, one pair
LineShortData == SubSeq(LineData0, 1, 11) \o <<"\n">>
\* Extended Linear Address 0x0000 cut after its first data byte,
\* ":0200000400": byte_count 2, one pair
LineShortExt == SubSeq(RecordLine(2, 0, 4, <<0, 0>>), 1, 11) \o <<"\n">>

LinePool ==
    {LineData0, LineData1, LineData18, LineDataTop, LineExtTop, LineEof,
     LineOther, LineBlank, LineShortData, LineShortExt}

\* the contents an input file may have
InputFiles == UNION {[1..n -> LinePool] : n \in 0..MaxLines}

\* ----------------------------------------------------------------- state
VARIABLES
    run,            \* 1: the tool run on input files; 2: run again on its output
    pc,             \* main: "parse", "emit", "done"; parse_intel_hex alone: "call", "returned"
    nfiles,         \* len(args.files)
    fileIdx,        \* number of files the loop of main has parsed
    file,           \* parse_intel_hex called on its own: the lines of its file
    file_data,      \* what parse_intel_hex last returned or raised
    images,         \* the file_data values folded into merged_data, in order
    merged_data,
    outcome,        \* "running", "written", "no data" (main returned), "ValueError"
    min_addr, max_addr, current, last_ext_addr, records,
    output_file,    \* the lines of the file at args.output; <<>>: never opened
    prev_output     \* run 2: the output of run 1

vars == <<run, pc, nfiles, fileIdx, file, file_data, images, merged_data, outcome,
          min_addr, max_addr, current, last_ext_addr, records,
          output_file, prev_output>>

walk == <<min_addr, max_addr, current, last_ext_addr, records>>

\* last_ext_addr = None
None == -1

\* file_data before parse_intel_hex has been called
NotCalled == [status |-> "not called", data |-> EmptyDict]

Init ==
    /\ run = 1
    /\ pc = "parse"
    /\ nfiles \in 1..MaxFiles
    /\ fileIdx = 0
    /\ file = <<>>
    /\ file_data = NotCalled
    /\ images = <<>>
    /\ merged_data = EmptyDict
    /\ outcome = "running"
    /\ min_addr = <<0, 0>> /\ max_addr = <<0, 0>> /\ current = <<0, 0>>
    /\ last_ext_addr = None
    /\ records = <<>>
    /\ output_file = <<>>
    /\ prev_output = <<>>

\* what is on disk at the path main is about to parse
FileContents == IF run = 1 THEN InputFiles ELSE {prev_output}

\* "if not merged_data" of main never taken
MainNeverEmpty(d) == FALSE

\* "if not merged_data" of main
MainNotData(d) == DOMAIN d = {}

\* "if not merged_data" of write_data_as_hex
WriteNotData(d) == DOMAIN d = {}

\* parse_intel_hex on every input file the model offers; comparing the table
\* with itself makes TLC enumerate it once instead of at every use
ParseTable ==
    LET table == [lines \in InputFiles |-> parse_intel_hex(lines)]
    IN  IF table = table THEN table ELSE table

\* file_data = parse_intel_hex(file)
Parsed(lines) ==
    IF lines \in InputFiles THEN ParseTable[lines] ELSE parse_intel_hex(lines)

\* one iteration of the loop of main: parse_intel_hex returns and its result
\* is folded into merged_data, or it raises and the exception ends main
ParseFile(lines) ==
    /\ pc = "parse" /\ fileIdx < nfiles
    /\ file_data' = Parsed(lines)
    /\ IF file_data'.status = "ok"
       THEN /\ images' = Append(images, file_data'.data)
            /\ merged_data' = dict_update(merged_data, file_data'.data)
            /\ fileIdx' = fileIdx + 1
            /\ UNCHANGED <<pc, outcome>>
       ELSE /\ outcome' = "ValueError"
            /\ pc' = "done"
            /\ UNCHANGED <<fileIdx, images, merged_data>>
    /\ UNCHANGED <<run, nfiles, file, walk, output_file, prev_output>>

\* main after the loop, nothing merged: prints "No data found" and returns
MainNoData ==
    /\ pc = "parse" /\ fileIdx = nfiles
    /\ MainNotData(merged_data)
    /\ outcome' = "no data"
    /\ pc' = "done"
    /\ UNCHANGED <<run, nfiles, fileIdx, file, file_data, images, merged_data, walk,
                   output_file, prev_output>>

\* main calls write_data_as_hex, which raises on an empty dictionary and
\* otherwise sets up the walk
WriteStart ==
    /\ pc = "parse" /\ fileIdx = nfiles
    /\ ~MainNotData(merged_data)
    /\ IF WriteNotData(merged_data)
       THEN /\ outcome' = "ValueError"
            /\ pc' = "done"
            /\ UNCHANGED walk
       ELSE /\ min_addr' = MinKey(merged_data)
            /\ max_addr' = MaxKey(merged_data)
            /\ current' = MinKey(merged_data)
            /\ last_ext_addr' = None
            /\ records' = <<>>
            /\ pc' = "emit"
            /\ UNCHANGED outcome
    /\ images' = <<>>
    /\ file_data' = NotCalled
    /\ UNCHANGED <<run, nfiles, fileIdx, file, merged_data, output_file, prev_output>>

\* chunk_len with the end of the range ignored
ChunkLenUnclipped(offset, cur, max) == 16 - (offset % 16)

\* chunk_len = min(16 - (offset % 16), max_addr - current + 1)
chunk_len(offset, cur, max) == Min(16 - (offset % 16), SpanPlus1(cur, max))

\* one iteration of "while current <= max_addr"
EmitChunk ==
    /\ pc = "emit"
    /\ AddrLE(current, max_addr)
    /\ Len(records) < MaxRecords
    /\ LET ext_addr == current[1]
           with_ext == IF ext_addr # last_ext_addr
                       THEN Append(records, gen_ext_record(ext_addr))
                       ELSE records
           offset == current[2]
           len == chunk_len(offset, current, max_addr)
           data_bytes == [i \in 1..len |-> dict_get(merged_data, AddrAdd(current, i - 1), 0)]
           chksum == compute_checksum(len, offset, 0, data_bytes)
       IN  /\ records' = Append(with_ext, FormatRecord(len, offset, 0, data_bytes, chksum))
           /\ last_ext_addr' = ext_addr
           /\ current' = AddrAdd(current, len)
    /\ UNCHANGED <<run, pc, nfiles, fileIdx, file, file_data, images, merged_data,
                   outcome, min_addr, max_addr, output_file, prev_output>>

\* after the loop: the End Of File record, then every record written with "\n"
WriteFinish ==
    /\ pc = "emit"
    /\ ~AddrLE(current, max_addr)
    /\ records' = Append(records, EofRecord)
    /\ output_file' = [k \in 1..Len(records) + 1 |->
                          Append(records, EofRecord)[k] \o <<"\n">>]
    /\ outcome' = "written"
    /\ pc' = "done"
    /\ UNCHANGED <<run, nfiles, fileIdx, file, file_data, images, merged_data,
                   min_addr, max_addr, current, last_ext_addr, prev_output>>

\* the tool is run again with the file it wrote as its only input file, and
\* another output path
Rerun ==
    /\ pc = "done" /\ outcome = "written" /\ run = 1
    /\ run' = 2
    /\ prev_output' = output_file
    /\ pc' = "parse"
    /\ nfiles' = 1
    /\ fileIdx' = 0
    /\ images' = <<>>
    /\ file_data' = NotCalled
    /\ merged_data' = EmptyDict
    /\ outcome' = "running"
    /\ min_addr' = <<0, 0>> /\ max_addr' = <<0, 0>> /\ current' = <<0, 0>>
    /\ last_ext_addr' = None
    /\ records' = <<>>
    /\ output_file' = <<>>
    /\ UNCHANGED file

Next ==
    \/ \E lines \in FileContents : ParseFile(lines)
    \/ MainNoData
    \/ WriteStart
    \/ EmitChunk
    \/ WriteFinish
    \/ Rerun

Spec == Init /\ [][Next]_vars

\* ------------------------------------------- parse_intel_hex on its own
\* parse_intel_hex(file_path) called on one file of InputFiles
InitParse ==
    /\ file \in InputFiles
    /\ file_data = NotCalled
    /\ run = 1 /\ pc = "call" /\ nfiles = 1 /\ fileIdx = 0
    /\ images = <<>>
    /\ merged_data = EmptyDict
    /\ outcome = "running"
    /\ min_addr = <<0, 0>> /\ max_addr = <<0, 0>> /\ current = <<0, 0>>
    /\ last_ext_addr = None
    /\ records = <<>>
    /\ output_file = <<>>
    /\ prev_output = <<>>

CallParse ==
    /\ pc = "call"
    /\ file_data' = Parsed(file)
    /\ pc' = "returned"
    /\ UNCHANGED <<run, nfiles, fileIdx, file, images, merged_data, outcome, walk,
                   output_file, prev_output>>

NextParse == CallParse

SpecParse == InitParse /\ [][NextParse]_vars

\* ================================================================ claims
\* ------------------------------------------------ reading a record's text
\* the fields of a record line ":BBOOOOTTDD..DDCC", read back from its text
RecCount(rec)  == int16(SubSeq(rec, 2, 3))
RecOffset(rec) == int16(SubSeq(rec, 4, 7))
RecType(rec)   == int16(SubSeq(rec, 8, 9))
RecData(rec)   == [i \in 1..RecCount(rec) |-> int16(SubSeq(rec, 8 + 2 * i, 9 + 2 * i))]
RecChecksum(rec) == int16(SubSeq(rec, 10 + 2 * RecCount(rec), 11 + 2 * RecCount(rec)))

\* the line is ':' followed by hexadecimal digits, and holds exactly the
\* byte_count data bytes it declares, then a checksum
RecShaped(rec) ==
    /\ Len(rec) >= 11
    /\ rec[1] = ":"
    /\ \A k \in 2..Len(rec) : IsHexChar(rec[k])
    /\ Len(rec) = 11 + 2 * RecCount(rec)

\* the big-endian value of the two data bytes of an Extended Linear Address record
RecExt(rec) == RecData(rec)[1] * 256 + RecData(rec)[2]

IsData(rec) == RecType(rec) = 0
IsExt(rec)  == RecType(rec) = 4
IsEof(rec)  == RecType(rec) = 1

RECURSIVE DataBytesBefore(_, _)
\* the number of data bytes in the Data records recs[1..k-1]
DataBytesBefore(recs, k) ==
    IF k <= 1 THEN 0
    ELSE DataBytesBefore(recs, k - 1)
         + (IF IsData(recs[k - 1]) THEN RecCount(recs[k - 1]) ELSE 0)

\* the address the walk was at when it wrote recs[k]
WalkAddr(recs, k) == AddrAdd(min_addr, DataBytesBefore(recs, k))

ExtIndices(recs) == {k \in 1..Len(recs) : IsExt(recs[k])}

\* the index of the last Extended Linear Address record before recs[k], or 0
LastExtBefore(recs, k) ==
    LET js == {j \in ExtIndices(recs) : j < k}
    IN  IF js = {} THEN 0 ELSE CHOOSE j \in js : \A i \in js : i <= j

Walking == pc = "emit" \/ (pc = "done" /\ outcome = "written")
Written == pc = "done" /\ outcome = "written"

\* ---------------------------------------------------------------- C1
LastDefining(a) ==
    CHOOSE k \in 1..Len(images) :
        /\ a \in DOMAIN images[k]
        /\ \A j \in k + 1..Len(images) : a \notin DOMAIN images[j]

Merge2(A, B) == dict_update(dict_update(EmptyDict, A), B)

\* C1: while main folds the parsed images in command-line order, the merged
\* image holds exactly the addresses some folded file defines, each with the
\* value of the last file that defines it; and merging two images in either
\* order gives the same addresses, with equal values wherever only one of
\* them defines the address.
C1_LastWriterWins ==
    (pc = "parse" /\ Len(images) = fileIdx) =>
        /\ DOMAIN merged_data = UNION {DOMAIN images[k] : k \in 1..Len(images)}
        /\ \A a \in DOMAIN merged_data : merged_data[a] = images[LastDefining(a)][a]
        /\ Len(images) = 2 =>
             LET A == images[1]
                 B == images[2]
             IN  /\ DOMAIN Merge2(A, B) = DOMAIN Merge2(B, A)
                 /\ \A a \in DOMAIN Merge2(A, B) :
                        a \notin (DOMAIN A \cap DOMAIN B) => Merge2(A, B)[a] = Merge2(B, A)[a]
                 /\ \A a \in DOMAIN A \cap DOMAIN B :
                        Merge2(A, B)[a] = B[a] /\ Merge2(B, A)[a] = A[a]

\* two files folded that give different values to one address
C1_Witness ==
    /\ pc = "parse" /\ fileIdx = 2 /\ Len(images) = 2
    /\ \E a \in DOMAIN images[1] \cap DOMAIN images[2] : images[1][a] # images[2][a]

\* ---------------------------------------------------------------- C2
ChecksumValid(rec) ==
    /\ RecShaped(rec)
    /\ RecChecksum(rec) \in 0..255
    /\ (RecCount(rec) + (RecOffset(rec) \div 256) + (RecOffset(rec) % 256) + RecType(rec)
        + SumSeq(RecData(rec)) + RecChecksum(rec)) % 256 = 0

\* C2: every record write_data_as_hex has appended, and every line of the
\* file it wrote, sums to 0 modulo 256 over byte_count, both offset bytes,
\* record_type, the data bytes and the checksum byte, the checksum being a byte.
C2_ChecksumValid ==
    /\ \A k \in 1..Len(records) : ChecksumValid(records[k])
    /\ \A k \in 1..Len(output_file) : ChecksumValid(strip(output_file[k]))

\* a written file with an Extended Linear Address record, a Data record with
\* a non-zero checksum and the End Of File record
C2_Witness ==
    /\ Written
    /\ \E k \in 1..Len(output_file) : IsExt(strip(output_file[k]))
    /\ \E k \in 1..Len(output_file) :
          IsData(strip(output_file[k])) /\ RecChecksum(strip(output_file[k])) # 0
    /\ \E k \in 1..Len(output_file) : IsEof(strip(output_file[k]))

\* ---------------------------------------------------------------- C3
\* C3: the data bytes of the Data records, taken in order, are the bytes of
\* the addresses min_addr, min_addr + 1, ... with none repeated or skipped:
\* byte i of a Data record is the image's value at the address the walk was
\* at plus i, or 0x00 where the image has no value there; the record's
\* offset is that address's low 16 bits; and when the file is written the
\* bytes end exactly at max_addr.
C3_GapFillCoverage ==
    Walking =>
        /\ \A k \in 1..Len(records) :
              IsData(records[k]) =>
                 /\ RecOffset(records[k]) = WalkAddr(records, k)[2]
                 /\ \A i \in 1..RecCount(records[k]) :
                       LET a == AddrAdd(WalkAddr(records, k), i - 1)
                       IN  RecData(records[k])[i] =
                              IF a \in DOMAIN merged_data THEN merged_data[a] ELSE 0
        /\ WalkAddr(records, Len(records) + 1) = current
        /\ Written => current = AddrAdd(max_addr, 1)

\* a written file whose range has an address the image lacks, in two Data records or more
C3_Witness ==
    /\ Written
    /\ \E k \in 1..Len(records) :
          /\ IsData(records[k])
          /\ \E i \in 1..RecCount(records[k]) :
                AddrAdd(WalkAddr(records, k), i - 1) \notin DOMAIN merged_data
    /\ Cardinality({k \in 1..Len(records) : IsData(records[k])}) >= 2
    /\ \E a \in DOMAIN merged_data : merged_data[a] # 0

\* ---------------------------------------------------------------- C4
\* C4: an Extended Linear Address record is written once per 64KB segment of
\* the range, in increasing order of segment, before the first Data record
\* of that segment, and every byte of a Data record lies in the segment the
\* last Extended Linear Address record before it names.
C4_SegmentBoundaries ==
    Walking =>
        /\ \A k \in 1..Len(records) :
              IsData(records[k]) =>
                 /\ LastExtBefore(records, k) # 0
                 /\ \A i \in 1..RecCount(records[k]) :
                       AddrAdd(WalkAddr(records, k), i - 1)[1]
                          = RecExt(records[LastExtBefore(records, k)])
        /\ \A j, k \in ExtIndices(records) :
              j < k => RecExt(records[j]) < RecExt(records[k])
        /\ Written => Cardinality(ExtIndices(records)) = max_addr[1] - min_addr[1] + 1

C9_AddressRange ==
    \A a \in DOMAIN merged_data : a[1] >= 0 /\ a[1] <= 65535 /\ a[2] \in 0..65535

\* ---------------------------------------------------------- C5 and C6
\* line k of the file given to parse_intel_hex, without its line end
LineOf(k) == strip(file[k])

IsRecordLine(l) == l # <<>> /\ l[1] = ":"

\* the three header fields are there and hexadecimal
HasHeader(l) == IsRecordLine(l) /\ Len(l) >= 9 /\ \A k \in 2..9 : IsHexChar(l[k])

\* the line declares a byte_count that is not the number of digit pairs after
\* its header, whether or not the last pair is taken as the checksum
Mismatch(l) ==
    /\ HasHeader(l)
    /\ RecCount(l) # (Len(l) - 9) \div 2
    /\ RecCount(l) # ((Len(l) - 9) \div 2) - 1

WellFormedLine(l) ==
    ~IsRecordLine(l) \/ (RecShaped(l) /\ (IsExt(l) => RecCount(l) = 2))

EofLines == {k \in 1..Len(file) : HasHeader(LineOf(k)) /\ IsEof(LineOf(k))}

\* the first End Of File record of the file, or one past its last line
FirstEof ==
    IF EofLines = {} THEN Len(file) + 1
    ELSE CHOOSE k \in EofLines : \A j \in EofLines : k <= j

\* the extended address in force at line k: that of the last Extended Linear
\* Address record above it in this file, 0 without one
ExtAt(k) ==
    LET js == {j \in 1..k - 1 : IsRecordLine(LineOf(j)) /\ IsExt(LineOf(j))}
    IN  IF js = {} THEN 0
        ELSE RecExt(LineOf(CHOOSE j \in js : \A i \in js : i <= j))

DataLines ==
    {k \in 1..FirstEof - 1 : IsRecordLine(LineOf(k)) /\ IsData(LineOf(k))}

\* (extended_address << 16) + offset + i of byte i (from 0) of Data line k
CellAddr(k, i) ==
    <<ExtAt(k) + ((RecOffset(LineOf(k)) + i) \div 65536),
      (RecOffset(LineOf(k)) + i) % 65536>>

Covering(a) ==
    {k \in DataLines : \E i \in 0..RecCount(LineOf(k)) - 1 : CellAddr(k, i) = a}

LastCovering(a) == CHOOSE k \in Covering(a) : \A j \in Covering(a) : j <= k

ExpectedKeys ==
    UNION {{CellAddr(k, i) : i \in 0..RecCount(LineOf(k)) - 1} : k \in DataLines}

ExpectedImage ==
    [a \in ExpectedKeys |->
        LET k == LastCovering(a)
            i == CHOOSE i \in 0..RecCount(LineOf(k)) - 1 : CellAddr(k, i) = a
        IN  RecData(LineOf(k))[i + 1]]

\* C5 as stated: a file in which a line read by the parser declares a
\* byte_count other than the number of data bytes on the line makes
\* parse_intel_hex raise.
C5_MalformedDetected ==
    (pc = "returned" /\ \E k \in 1..Min(FirstEof, Len(file)) : Mismatch(LineOf(k)))
        => file_data.status = "ValueError"

\* C6: for a file of well-formed lines parse_intel_hex returns the image that
\* holds exactly the bytes of the Data records above the first End Of File
\* record, byte i at (extended address << 16) + offset + i with the extended
\* address of the last Extended Linear Address record above it in the file
\* (0 without one), the last Data record to cover an address giving its value.
C6_ImageBuilder ==
    (pc = "returned" /\ \A k \in 1..Len(file) : WellFormedLine(LineOf(k))) =>
        /\ file_data.status = "ok"
        /\ file_data.data = ExpectedImage

\* a well-formed file parsed with a Data record under an Extended Linear Address record
C6_Witness ==
    /\ pc = "returned"
    /\ \A k \in 1..Len(file) : WellFormedLine(LineOf(k))
    /\ file_data.status = "ok"
    /\ \E k \in DataLines : ExtAt(k) # 0
    /\ DOMAIN file_data.data # {}

\* ---------------------------------------------------------------- C7
IsPrefix(s, t) == Len(s) <= Len(t) /\ \A k \in 1..Len(s) : s[k] = t[k]

\* C7: run again on the file it wrote, the tool writes the same records in
\* the same order, so the same file.
C7_Idempotent ==
    run = 2 =>
        /\ outcome \in {"running", "written"}
        /\ IsPrefix(records, [k \in 1..Len(prev_output) |-> strip(prev_output[k])])
        /\ Written => output_file = prev_output

\* --------------------------------------------------------------- C10
C10_Records ==
    /\ Walking =>
         \A k \in 1..Len(records) :
            IsData(records[k]) =>
               LET first == WalkAddr(records, k)
                   last  == AddrAdd(first, RecCount(records[k]) - 1)
               IN  /\ RecCount(records[k]) \in 1..16
                   /\ first[1] = last[1]
                   /\ first[2] \div 16 = last[2] \div 16
                   /\ AddrLE(last, max_addr)
    /\ pc = "emit" => \A k \in 1..Len(records) : ~IsEof(records[k])
    /\ Written =>
         /\ records[Len(records)] = EofRecord
         /\ Cardinality({k \in 1..Len(records) : IsEof(records[k])}) = 1
         /\ Len(output_file) = Len(records)
         /\ output_file[Len(output_file)] = EofRecord \o <<"\n">>

\* an iteration of the loop moves current up, and no further than max_addr + 1
C10_Advance ==
    (pc = "emit" /\ pc' = "emit" /\ records' # records) =>
        /\ current' # current
        /\ AddrLE(current, current')
        /\ AddrLE(current', AddrAdd(max_addr, 1))

\* C10: a Data record holds 1 to 16 bytes of one 16-byte-aligned block
\* and ends at or below max_addr; every iteration of the walk moves current
\* up by at least one and never beyond max_addr + 1, so the walk ends; and
\* the written file ends with its only End Of File record.
C10_Chunking == []C10_Records /\ [][C10_Advance]_vars

\* a written file with a full 16-byte Data record and a shorter one
C10_Witness ==
    /\ Written
    /\ \E k \in 1..Len(records) : IsData(records[k]) /\ RecCount(records[k]) = 16
    /\ \E k \in 1..Len(records) : IsData(records[k]) /\ RecCount(records[k]) < 16

====
